---- MODULE Spec2Model ----
(***************************************************************************)
(* The fact-acquisition pipeline of src/App.js: fetchWithRetry, the        *)
(* prefetch queue with its seen-set (primeCache), the sliding-window tap   *)
(* limiter (canTap, handlePress), the countdown timer and the orchestrator *)
(* (initial load effect, getNextFact).                                     *)
(*                                                                         *)
(* JavaScript runs one synchronous segment at a time: every action below   *)
(* is one such segment, from an event (mount, press, timer callback, a     *)
(* settled promise) up to the next await of every async function it runs.  *)
(***************************************************************************)
EXTENDS Integers, Sequences, FiniteSets, TLC

VARIABLES
    world,      \* the environment of this run (fixed at start), see Worlds
    now,        \* the value Date.now() returns
    mounted,    \* the initial-load effect has run
    fact,       \* useState: the displayed fact
    busy,       \* useState: busy
    cacheRef,   \* cacheRef.current: the queue of prefetched facts
    seenRef,    \* seenRef.current: the Set of texts primeCache has queued
    tapsRef,    \* tapsRef.current: timestamps of the allowed taps
    limitUntil, \* useState: number | null
    remaining,  \* useState: seconds shown on the popup
    showLimit,  \* useState: the popup is visible
    chains,     \* the user-facing async calls (initial load, getNextFact)
    refills,    \* the primeCache calls in flight
    allowedRecent, \* history: the allowed taps t with now - t < WINDOW_MS
    lastPublish \* history: what the last setFact..finally segment did, in order

vars == <<world, now, mounted, fact, busy, cacheRef, seenRef, tapsRef, limitUntil,
          remaining, showLimit, chains, refills, allowedRecent, lastPublish>>

-----------------------------------------------------------------------------
(* Bounds of the model *)

\* the clock advances in steps of StepMs up to MaxTime
StepMs == 20000
MaxTime == 80000
\* primeCache calls that may be in flight at once
MaxRefills == 2
\* slots for user-facing calls (the code keeps at most one in flight)
MaxChains == 2

-----------------------------------------------------------------------------
(* Program constants *)

MAX_PER_MINUTE == 5
WINDOW_MS == 60000
MAX_TRIES == 3
FIRST_DELAY == 400
CACHE_TARGET == 4
INTERVAL_MS == 250

FALLBACK == << "honey never spoils.",
               "octopuses have three hearts.",
               "sharks existed before trees.",
               "wombat poop is cube-shaped.",
               "bananas are berries; strawberries aren't." >>

LOADING == "loading fun fact..."

\* JavaScript null / undefined for a text and for limitUntil
null == "<null>"
NoLimit == -1

-----------------------------------------------------------------------------
(* The remote API: what one fetch of API_URL can produce *)

\* text fields the server may send (mixed case; one equals a FALLBACK entry)
ApiTexts == { "Honey never spoils.", "cats purr.", "Cats Purr." }

\* String.prototype.toLowerCase on the texts of this model
toLowerCase(s) ==
    CASE s = "Honey never spoils." -> "honey never spoils."
      [] s = "Cats Purr."          -> "cats purr."
      [] OTHER                     -> s

Responses ==
    { [kind |-> k, text |-> null] :
        k \in {"transport", "status", "badjson", "notext", "nonstring"} }
    \cup { [kind |-> "json", text |-> t] : t \in ApiTexts \cup {""} }

\* texts of a server that never runs out of facts
FreshTexts == << "ants farm.", "bats fly.", "crows count.", "dogs dream.",
                 "eels shock.", "frogs freeze." >>
\* the text such a server sends: the first one the seen-set does not hold
nextFresh(seen) ==
    FreshTexts[IF Cardinality(seen) < Len(FreshTexts)
               THEN Cardinality(seen) + 1 ELSE Len(FreshTexts)]

\* The environments explored.  "network": the server may answer anything in
\* Responses while the clock reading stays the same; "clock": the clock
\* runs while the server is steady (every request answered, one text);
\* "fresh": every request is answered with a text not queued before, the
\* clock reading stays the same.
Worlds == {"network", "clock", "fresh"}
Answers(w) ==
    IF w = "network" THEN Responses
    ELSE IF w = "clock" THEN { [kind |-> "json", text |-> "cats purr."] }
    ELSE { [kind |-> "json", text |-> nextFresh(seenRef)] }
ClockRuns(w) == w = "clock"

\* Math.floor(Math.random() * FALLBACK.length) + 1: the indices drawn
FallbackPicks == 1..Len(FALLBACK)

\* !t for a text or null
Falsy(t) == t = null \/ t = ""

\* one pass of the try block of fetchWithRetry: the text returned, or null
\* when the pass throws (fetch rejects, !res.ok, res.json() rejects,
\* !t, or t.toLowerCase is not a function)
tryFetch(resp) ==
    IF resp.kind = "json" /\ ~Falsy(resp.text)
    THEN toLowerCase(resp.text)
    ELSE null

-----------------------------------------------------------------------------
(* fetchWithRetry: the state of one call *)

Idle == [pc |-> "idle", attempt |-> 0, delay |-> 0]
\* let attempt = 0; let delay = 400; first fetchJson issued
Started == [pc |-> "fetch", attempt |-> 0, delay |-> FIRST_DELAY]
\* an exception left fetchWithRetry (its caller saw it)
Threw == [pc |-> "threw", attempt |-> 0, delay |-> 0]

\* variant: the catch handles the failures of fetchJson only
catchesFetchOnly(resp) == resp.kind \in {"transport", "status", "badjson"}

\* catch { ... }: the clause has no binding and no filter, whatever the
\* try block throws for this response is caught
catches(resp) == TRUE

\* catch: await sleep(delay)
Sleeping(p) == [p EXCEPT !.pc = "sleep"]
\* variant: the attempt is not counted and the delay stays
WokenSameAttempt(p) == p

\* variant: the delay grows threefold
WokenTripled(p) == [p EXCEPT !.delay = p.delay * 3, !.attempt = p.attempt + 1]

\* after the sleep: delay *= 2; attempt++
Woken(p) == [p EXCEPT !.delay = p.delay * 2, !.attempt = p.attempt + 1]
\* while (attempt < 3)
loopAgain(p) == p.attempt < MAX_TRIES

-----------------------------------------------------------------------------
(* The backoff of the README variant of fetchWithRetry (jittered) *)

BASE_DELAY_MS == 400
JITTER_PCT == 25
MIN_DELAY_MS == 100

RECURSIVE Pow2(_)
Pow2(n) == IF n = 0 THEN 1 ELSE 2 * Pow2(n - 1)

\* Math.random() in thousandths, values for which the jitter is a whole number
RandomDraws == {0, 250, 500, 750, 995}

\* base = BASE_DELAY_MS * 2^attempt; jitter = base * (random * 2 * JITTER -
\* JITTER); delay = Math.max(100, base + jitter)
jitteredDelay(attempt, rnd) ==
    LET base == BASE_DELAY_MS * Pow2(attempt)
        jitter == (base * (rnd * 2 * JITTER_PCT - 1000 * JITTER_PCT)) \div 100000
    IN  IF base + jitter > MIN_DELAY_MS THEN base + jitter ELSE MIN_DELAY_MS

-----------------------------------------------------------------------------
(* canTap and the gates of handlePress *)

Min(S) == CHOOSE x \in S : \A y \in S : x <= y
Range(q) == { q[i] : i \in 1..Len(q) }
InWindow(t, x) == t - x < WINDOW_MS

\* variant: nothing is purged
purgeNothing(taps, t) == taps

\* tapsRef.current.filter((t) => now - t < WINDOW_MS)
purge(taps, t) == SelectSeq(taps, LAMBDA x : InWindow(t, x))

\* variant: the comparison lets one more tap through
overLimitLate(taps) == Len(taps) > MAX_PER_MINUTE

\* tapsRef.current.length >= MAX_PER_MINUTE
overLimit(taps) == Len(taps) >= MAX_PER_MINUTE

\* variant: counts the window from the newest tap
nextAtNewest(taps) ==
    (CHOOSE x \in Range(taps) : \A y \in Range(taps) : x >= y) + WINDOW_MS

\* variant: the window length is not added
nextAtNoWindow(taps) == Min(Range(taps))

\* oldest + WINDOW_MS
nextAt(taps) == Min(Range(taps)) + WINDOW_MS

\* variant: the denied tap is recorded as well
tapsAfterAll(taps, t) == Append(purge(taps, t), t)

\* tapsRef.current after canTap() ran at time t (a denied tap is not recorded)
tapsAfter(taps, t) ==
    IF overLimit(purge(taps, t)) THEN purge(taps, t)
    ELSE Append(purge(taps, t), t)

\* variant: the busy gate is missing
pressNeverIgnored == FALSE

\* if (busy) return;
pressIgnored == busy

\* limitUntil && Date.now() < limitUntil
limitBlocks(lu, t) == lu # NoLimit /\ lu # 0 /\ t < lu

-----------------------------------------------------------------------------
(* primeCache and getNextFact: the pure parts *)

\* variant: pop() in place of shift()
popLast(q) == IF q = <<>> THEN null ELSE q[Len(q)]

\* cacheRef.current.shift(): the element returned and the queue left
shiftHead(q) == IF q = <<>> THEN null ELSE Head(q)
shiftRest(q) == IF q = <<>> THEN <<>> ELSE Tail(q)

\* variant: the fallback tier is missing
pickFactNoFallback(f, i) == f

\* if (!f) f = FALLBACK[i].toLowerCase(), i = floor(random() * length)
pickFact(f, i) == IF Falsy(f) THEN toLowerCase(FALLBACK[i]) ELSE f

\* while (cacheRef.current.length < 4)
wantsMore(q) == Len(q) < CACHE_TARGET

\* variant: the break is missing
refillNeverStops(f) == FALSE

\* if (!f) break;
refillStops(f) == Falsy(f)

\* variant: the seen-set is not consulted
pushFactAlways(q, seen, f) == Append(q, f)

\* if (!seenRef.current.has(f)) { push(f); add(f); }
pushFact(q, seen, f) == IF f \notin seen THEN Append(q, f) ELSE q
addSeen(seen, f) == IF f \notin seen THEN seen \cup {f} ELSE seen

FreeSlots(procs) == { i \in DOMAIN procs : procs[i].pc = "idle" }
spawn(procs) == [procs EXCEPT ![Min(FreeSlots(procs))] = Started]

\* primeCache() up to its first await: a new call in flight unless the
\* queue is already full.  The model follows MaxRefills calls at a time: the
\* first request of a call started beyond that is one that stays pending.
primeCache(q, r) ==
    IF wantsMore(q) /\ FreeSlots(r) # {} THEN spawn(r) ELSE r

-----------------------------------------------------------------------------
Init ==
    /\ world \in Worlds
    /\ now = 0
    /\ mounted = FALSE
    /\ fact = LOADING
    /\ busy = FALSE
    /\ cacheRef = <<>>
    /\ seenRef = {}
    /\ tapsRef = <<>>
    /\ limitUntil = NoLimit
    /\ remaining = 0
    /\ showLimit = FALSE
    /\ chains = [c \in 1..MaxChains |-> Idle]
    /\ refills = [r \in 1..MaxRefills |-> Idle]
    /\ allowedRecent = <<>>
    /\ lastPublish = <<>>

\* the clock moves on
AdvanceTime ==
    /\ ClockRuns(world)
    /\ now + StepMs <= MaxTime
    /\ now' = now + StepMs
    /\ allowedRecent' = SelectSeq(allowedRecent, LAMBDA x : now' - x < WINDOW_MS)
    /\ UNCHANGED <<world, lastPublish, remaining, mounted, fact, busy, cacheRef, seenRef, tapsRef,
                   limitUntil, showLimit, chains, refills>>

\* the initial-load effect: setBusy(true); await fetchWithRetry(...)
InitialLoad ==
    /\ ~mounted
    /\ mounted' = TRUE
    /\ busy' = TRUE
    /\ chains' = spawn(chains)
    /\ UNCHANGED <<world, lastPublish, remaining, now, fact, cacheRef, seenRef, tapsRef, limitUntil,
                   showLimit, refills, allowedRecent>>

\* variant: the refill is started before the fact is shown
publishOrderRefillFirst(q) ==
    (IF wantsMore(q) THEN <<"request">> ELSE <<>>)
    \o <<"setFact", "setBusy", "return">>

\* the order of the statements of that tail: setFact(f); primeCache(), which
\* runs up to its first await, i.e. through fetchWithRetry and fetchJson to
\* the call of fetch (the request is issued), unless the queue is full;
\* finally setBusy(false); the async function returns
publishOrder(q) ==
    <<"setFact">>
    \o (IF wantsMore(q) THEN <<"request">> ELSE <<>>)
    \o <<"setBusy", "return">>

\* setFact(f); primeCache(); finally setBusy(false) -- the tail shared by the
\* initial load and getNextFact, for the call in slot c (0: no slot was used)
publish(c, f, q, ch) ==
    /\ \E i \in FallbackPicks : fact' = pickFact(f, i)
    /\ refills' = primeCache(q, refills)
    /\ busy' = FALSE
    /\ lastPublish' = publishOrder(q)
    /\ chains' = IF c = 0 THEN ch ELSE [ch EXCEPT ![c] = Idle]

\* handlePress while busy: ignored
PressBusy ==
    /\ mounted
    /\ pressIgnored
    /\ UNCHANGED <<world, lastPublish, remaining, now, mounted, fact, busy, cacheRef, seenRef, tapsRef,
                   limitUntil, showLimit, chains, refills, allowedRecent>>

\* handlePress while limitUntil lies in the future: popup, no canTap
PressBlocked ==
    /\ mounted
    /\ ~pressIgnored
    /\ limitBlocks(limitUntil, now)
    /\ showLimit' = TRUE
    /\ UNCHANGED <<world, lastPublish, remaining, now, mounted, fact, busy, cacheRef, seenRef, tapsRef,
                   limitUntil, chains, refills, allowedRecent>>

\* handlePress, canTap() returns false
PressDenied ==
    /\ mounted
    /\ ~pressIgnored
    /\ ~limitBlocks(limitUntil, now)
    /\ overLimit(purge(tapsRef, now))
    /\ tapsRef' = tapsAfter(tapsRef, now)
    /\ limitUntil' = nextAt(purge(tapsRef, now))
    /\ showLimit' = TRUE
    /\ UNCHANGED <<world, lastPublish, remaining, now, mounted, fact, busy, cacheRef, seenRef,
                   chains, refills, allowedRecent>>

\* handlePress, canTap() returns true: getNextFact() up to its first await
PressAllowed ==
    /\ mounted
    /\ ~pressIgnored
    /\ ~limitBlocks(limitUntil, now)
    /\ ~overLimit(purge(tapsRef, now))
    /\ tapsRef' = tapsAfter(tapsRef, now)
    /\ allowedRecent' = Append(allowedRecent, now)
    /\ cacheRef' = shiftRest(cacheRef)
    /\ IF Falsy(shiftHead(cacheRef))
       THEN \* setBusy(true); await fetchWithRetry(...)
            /\ FreeSlots(chains) # {}
            /\ chains' = spawn(chains)
            /\ busy' = TRUE
            /\ UNCHANGED <<fact, refills, lastPublish>>
       ELSE publish(0, shiftHead(cacheRef), cacheRef', chains)
    /\ UNCHANGED <<world, remaining, now, mounted, seenRef, limitUntil, showLimit>>

\* the fetch of user-facing call c settles with a usable text
ChainFetched(c, resp) ==
    /\ chains[c].pc = "fetch"
    /\ ~Falsy(tryFetch(resp))
    /\ publish(c, tryFetch(resp), cacheRef, chains)
    /\ UNCHANGED <<world, remaining, now, mounted, cacheRef, seenRef, tapsRef, limitUntil,
                   showLimit, allowedRecent>>

\* the fetch of user-facing call c fails: catch { await sleep(delay) }
ChainFailed(c, resp) ==
    /\ chains[c].pc = "fetch"
    /\ Falsy(tryFetch(resp))
    /\ IF catches(resp)
       THEN /\ chains' = [chains EXCEPT ![c] = Sleeping(chains[c])]
            /\ UNCHANGED busy
       ELSE \* the rejection passes through finally { setBusy(false) }
            /\ chains' = [chains EXCEPT ![c] = Threw]
            /\ busy' = FALSE
    /\ UNCHANGED <<world, lastPublish, remaining, now, mounted, fact, cacheRef, seenRef, tapsRef,
                   limitUntil, showLimit, refills, allowedRecent>>

\* the sleep of call c ends: delay *= 2; attempt++; loop or return null
ChainWoke(c) ==
    /\ chains[c].pc = "sleep"
    /\ IF loopAgain(Woken(chains[c]))
       THEN /\ chains' = [chains EXCEPT ![c] = [Woken(chains[c]) EXCEPT !.pc = "fetch"]]
            /\ UNCHANGED <<fact, busy, refills, lastPublish>>
       ELSE /\ publish(c, null, cacheRef, chains)
    /\ UNCHANGED <<world, remaining, now, mounted, cacheRef, seenRef, tapsRef, limitUntil,
                   showLimit, allowedRecent>>

\* primeCache call r after fetchWithRetry returned f: break, or push and loop
refillResume(r, f) ==
    IF refillStops(f)
    THEN /\ refills' = [refills EXCEPT ![r] = Idle]
         /\ UNCHANGED <<cacheRef, seenRef>>
    ELSE /\ cacheRef' = pushFact(cacheRef, seenRef, f)
         /\ seenRef' = addSeen(seenRef, f)
         /\ refills' = [refills EXCEPT
                          ![r] = IF wantsMore(cacheRef') THEN Started ELSE Idle]

RefillFetched(r, resp) ==
    /\ refills[r].pc = "fetch"
    /\ ~Falsy(tryFetch(resp))
    /\ refillResume(r, tryFetch(resp))
    /\ UNCHANGED <<world, lastPublish, remaining, now, mounted, fact, busy, tapsRef, limitUntil,
                   showLimit, chains, allowedRecent>>

RefillFailed(r, resp) ==
    /\ refills[r].pc = "fetch"
    /\ Falsy(tryFetch(resp))
    /\ refills' = [refills EXCEPT
                     ![r] = IF catches(resp) THEN Sleeping(refills[r]) ELSE Threw]
    /\ UNCHANGED <<world, lastPublish, remaining, now, mounted, fact, busy, cacheRef, seenRef, tapsRef,
                   limitUntil, showLimit, chains, allowedRecent>>

RefillWoke(r) ==
    /\ refills[r].pc = "sleep"
    /\ IF loopAgain(Woken(refills[r]))
       THEN /\ refills' = [refills EXCEPT ![r] = [Woken(refills[r]) EXCEPT !.pc = "fetch"]]
            /\ UNCHANGED <<cacheRef, seenRef>>
       ELSE /\ refillResume(r, null)
    /\ UNCHANGED <<world, lastPublish, remaining, now, mounted, fact, busy, tapsRef, limitUntil,
                   showLimit, chains, allowedRecent>>

\* variant: the countdown never reaches zero
msLeftNeverZero(lu, t) == IF lu - t > 1 THEN lu - t ELSE 1

\* Math.max(0, limitUntil - Date.now())
msLeft(lu, t) == IF lu - t > 0 THEN lu - t ELSE 0

\* Math.ceil(msLeft / 1000)
secs(ms) == (ms + 999) \div 1000

\* the setInterval callback of the countdown effect
TimerTick ==
    /\ limitUntil # NoLimit /\ limitUntil # 0
    /\ remaining' = secs(msLeft(limitUntil, now))
    /\ IF msLeft(limitUntil, now) <= 0
       THEN limitUntil' = NoLimit /\ showLimit' = FALSE
       ELSE UNCHANGED <<limitUntil, showLimit>>
    /\ UNCHANGED <<world, lastPublish, now, mounted, fact, busy, cacheRef, seenRef, tapsRef,
                   chains, refills, allowedRecent>>

\* the popup's ok button: setShowLimit(false)
DismissPopup ==
    /\ showLimit
    /\ showLimit' = FALSE
    /\ UNCHANGED <<world, lastPublish, remaining, now, mounted, fact, busy, cacheRef, seenRef, tapsRef,
                   limitUntil, chains, refills, allowedRecent>>

Next ==
    \/ AdvanceTime
    \/ InitialLoad
    \/ PressBusy
    \/ PressBlocked
    \/ PressDenied
    \/ PressAllowed
    \/ \E c \in 1..MaxChains, resp \in Answers(world) : ChainFetched(c, resp)
    \/ \E c \in 1..MaxChains, resp \in Answers(world) : ChainFailed(c, resp)
    \/ \E c \in 1..MaxChains : ChainWoke(c)
    \/ \E r \in 1..MaxRefills, resp \in Answers(world) : RefillFetched(r, resp)
    \/ \E r \in 1..MaxRefills, resp \in Answers(world) : RefillFailed(r, resp)
    \/ \E r \in 1..MaxRefills : RefillWoke(r)
    \/ TimerTick
    \/ DismissPopup

Spec == Init /\ [][Next]_vars

\* what the user does: a press that is not ignored, or the popup's ok button
UserStep == PressBlocked \/ PressDenied \/ PressAllowed \/ DismissPopup

\* the settling of the HTTP request of user-facing call c, either way
ChainSettles(c) ==
    \E resp \in Answers(world) : ChainFetched(c, resp) \/ ChainFailed(c, resp)
\* the settling of the HTTP request of refill r, either way
RefillSettles(r) ==
    \E resp \in Answers(world) : RefillFetched(r, resp) \/ RefillFailed(r, resp)

\* the clock runs, the 250 ms interval keeps firing, and every HTTP request
\* and backoff sleep of a user-facing call returns; nothing is assumed of
\* the background refills
SpecLive ==
    /\ Spec
    /\ WF_vars(AdvanceTime)
    /\ WF_vars(TimerTick)
    /\ \A c \in 1..MaxChains : WF_vars(ChainSettles(c)) /\ WF_vars(ChainWoke(c))

\* as SpecLive, and every HTTP request and backoff sleep of a refill returns
SpecFair ==
    /\ SpecLive
    /\ \A r \in 1..MaxRefills : WF_vars(RefillSettles(r)) /\ WF_vars(RefillWoke(r))

TypeOK ==
    /\ now \in 0..MaxTime
    /\ busy \in BOOLEAN /\ mounted \in BOOLEAN /\ showLimit \in BOOLEAN
    /\ \A c \in 1..MaxChains : chains[c].pc \in {"idle", "fetch", "sleep"}
    /\ \A r \in 1..MaxRefills : refills[r].pc \in {"idle", "fetch", "sleep"}


-----------------------------------------------------------------------------
(* Properties *)

\* the texts a published fact can be: a lowercased server text or a
\* lowercased FALLBACK entry
ServerFacts ==
    { toLowerCase(t) : t \in ApiTexts }
    \cup { toLowerCase(FreshTexts[i]) : i \in 1..Len(FreshTexts) }
FallbackFacts == { toLowerCase(FALLBACK[i]) : i \in 1..Len(FALLBACK) }

Active(procs) == { i \in DOMAIN procs : procs[i].pc # "idle" }
NoDuplicates(q) == \A i, j \in 1..Len(q) : q[i] = q[j] => i = j
InWindowCount(taps, t) ==
    Cardinality({ i \in 1..Len(taps) : t - taps[i] < WINDOW_MS })

\* steps, told from the state they change
\* an allowed tap: handlePress reached getNextFact()
TapAllowedStep == allowedRecent' = Append(allowedRecent, now)
\* a user-facing call begins to wait for the network
ChainStartedStep == \E c \in 1..MaxChains :
    chains[c].pc = "idle" /\ chains'[c].pc # "idle"
\* a user-facing call ends, or getNextFact served the fact from the queue
PublishedStep ==
    \/ \E c \in 1..MaxChains : chains[c].pc # "idle" /\ chains'[c].pc = "idle"
    \/ Len(cacheRef') < Len(cacheRef)
\* fetchWithRetry of call p returns null in this step
ReturnsNull(p) == p.pc = "sleep" /\ ~loopAgain(Woken(p))

\* C1: every initial load and every getNextFact call publishes a non-null,
\* non-empty fact that is a queued/fetched server text or a FALLBACK entry,
\* whatever the fetches did; null never becomes the displayed fact.
C1_AlwaysAFact ==
    /\ [](/\ fact # null /\ fact # ""
          /\ fact \in {LOADING} \cup ServerFacts \cup FallbackFacts
          /\ (mounted /\ ~busy => fact # LOADING))
    /\ [][PublishedStep => fact' \in ServerFacts \cup FallbackFacts]_vars

\* every attempt of the initial load failed and a FALLBACK entry is shown
C1_Witness ==
    /\ mounted /\ ~busy /\ tapsRef = <<>>
    /\ fact = FALLBACK[5] /\ seenRef = {}

\* total attempts documented for a call whose fetches all fail: 1 + retries
MAX_RETRIES == 3

\* C2: when every attempt fails, fetchWithRetry returns null after exactly
\* MAX_RETRIES + 1 = 4 fetch attempts.
C2_FourAttempts ==
    [][/\ \A c \in 1..MaxChains :
            ReturnsNull(chains[c]) /\ chains'[c] # chains[c]
                => Woken(chains[c]).attempt = MAX_RETRIES + 1
       /\ \A r \in 1..MaxRefills :
            ReturnsNull(refills[r]) /\ refills'[r] # refills[r]
                => Woken(refills[r]).attempt = MAX_RETRIES + 1]_vars

\* C3: at no time do more than MAX_PER_MINUTE allowed taps lie within a
\* span shorter than WINDOW_MS (the span that ends now).
C3_AtMostFiveInWindow == Len(allowedRecent) <= MAX_PER_MINUTE

\* five taps spread over the window were allowed and a sixth was denied
C3_Witness ==
    /\ Len(allowedRecent) = MAX_PER_MINUTE
    /\ allowedRecent[1] < allowedRecent[MAX_PER_MINUTE]
    /\ limitUntil = allowedRecent[1] + WINDOW_MS
    /\ now < limitUntil

\* C4: a tap made while not busy with fewer than five timestamps in the
\* window is allowed; the limitUntil gate blocks only taps canTap would
\* deny, also before the timer has cleared limitUntil.
C4_AllowedWhenRoom ==
    /\ limitBlocks(limitUntil, now)
            => InWindowCount(tapsRef, now) >= MAX_PER_MINUTE
    /\ mounted /\ ~busy /\ InWindowCount(tapsRef, now) < MAX_PER_MINUTE
            => ENABLED PressAllowed

\* the window has room again while the timer has not cleared limitUntil
C4_Witness ==
    /\ mounted /\ ~busy
    /\ limitUntil # NoLimit /\ now >= limitUntil
    /\ InWindowCount(tapsRef, now) < MAX_PER_MINUTE

\* C5: the queue never holds a text twice, every queued text is in the
\* seen-set, and the seen-set never loses an element.
C5_CacheInvariant ==
    /\ [](NoDuplicates(cacheRef) /\ Range(cacheRef) \subseteq seenRef)
    /\ [][seenRef \subseteq seenRef']_vars

\* two refills in flight next to a queue they have filled with two texts
C5_Witness ==
    /\ Cardinality(Active(refills)) = 2
    /\ Len(cacheRef) >= 2
    /\ Len(tapsRef) >= 1

\* C6: getNextFact called with a non-empty queue publishes the head of the
\* queue, removes that one entry, and starts no user-facing fetch; the one
\* call it may start is a background refill.
C6_ServesHead ==
    [][TapAllowedStep /\ cacheRef # <<>> =>
          /\ fact' = Head(cacheRef)
          /\ cacheRef' = Tail(cacheRef)
          /\ chains' = chains /\ ~busy'
          /\ \A r \in 1..MaxRefills :
                refills'[r] # refills[r]
                    => refills[r] = Idle /\ refills'[r] = Started]_vars

\* a queued text was served while another one still waits in the queue
C6_Witness ==
    /\ ~busy /\ fact \in seenRef /\ fact \notin Range(cacheRef)
    /\ Len(cacheRef) >= 1 /\ Len(tapsRef) >= 2

\* C7: the rate window gains a timestamp exactly in the step of an allowed
\* tap, which starts getNextFact; every other step (initial load, refills,
\* taps ignored, blocked or denied) adds none.
C7_WindowRecordsAllowedTaps ==
    [][/\ TapAllowedStep =>
            /\ tapsRef' = Append(purge(tapsRef, now), now)
            /\ (Len(cacheRef') < Len(cacheRef) \/ ChainStartedStep)
       /\ ~TapAllowedStep =>
            /\ tapsRef' = tapsRef \/ tapsRef' = purge(tapsRef, now)
            /\ Len(cacheRef') >= Len(cacheRef)
            /\ ChainStartedStep => ~mounted]_vars

\* a tap was denied after the clock moved: old timestamps purged, none added
C7_Witness ==
    /\ Len(tapsRef) = MAX_PER_MINUTE
    /\ limitUntil # NoLimit /\ showLimit
    /\ now > 0 /\ tapsRef[MAX_PER_MINUTE] < now

\* C8: while busy no second user-facing call starts: at most one is ever in
\* flight, and no step taken while busy records a tap, pops the queue or
\* starts a call (a fact shown while busy is the one call finishing).
C8_NoOverlap ==
    /\ [](/\ Cardinality(Active(chains)) <= 1
          /\ busy <=> Active(chains) # {})
    /\ [][busy => /\ tapsRef' = tapsRef
                  /\ Len(cacheRef') >= Len(cacheRef)
                  /\ ~ChainStartedStep
                  /\ fact' # fact => ~busy']_vars

\* a getNextFact call is waiting out a backoff while the press is ignored
C8_Witness ==
    /\ busy /\ Len(tapsRef) >= 1
    /\ \E c \in 1..MaxChains : chains[c].pc = "sleep"

\* C9: when a fetchWithRetry of a refill returns null the refill ends: it
\* issues no further fetch and leaves queue and seen-set as they were.
C9_RefillStopsOnNull ==
    [][\A r \in 1..MaxRefills :
          ReturnsNull(refills[r]) /\ refills'[r] # refills[r]
              => /\ refills'[r] = Idle
                 /\ cacheRef' = cacheRef
                 /\ seenRef' = seenRef]_vars

\* the refill of the initial load gave up with the queue still empty
C9_Witness ==
    /\ mounted /\ ~busy /\ Active(refills) = {}
    /\ cacheRef = <<>> /\ seenRef = {}

\* C10: a fact that is displayed is never afterwards added to the queue.
C10_ShownNeverQueued ==
    [][fact # LOADING /\ fact \in Range(cacheRef')
          => fact \in Range(cacheRef)]_vars


\* a tap is denied in this step: canTap sets limitUntil (to a time after now)
TapDeniedStep == limitUntil' # limitUntil /\ limitUntil' # NoLimit

\* C11: a denied tap is not recorded: the rate window only loses the
\* timestamps that left the window, limitUntil becomes the oldest retained
\* timestamp + WINDOW_MS, no fetch starts, fact, queue and seen-set stay.
C11_DeniedTapFrame ==
    [][TapDeniedStep =>
          /\ tapsRef' = SelectSeq(tapsRef, LAMBDA t : now - t < WINDOW_MS)
          /\ Len(tapsRef') >= MAX_PER_MINUTE
          /\ \A i \in 1..Len(tapsRef') : tapsRef'[i] + WINDOW_MS >= limitUntil'
          /\ \E i \in 1..Len(tapsRef') : tapsRef'[i] + WINDOW_MS = limitUntil'
          /\ chains' = chains /\ refills' = refills /\ busy' = busy
          /\ fact' = fact /\ cacheRef' = cacheRef /\ seenRef' = seenRef]_vars

\* a tap was denied in a window that began after the first clock step
C11_Witness ==
    /\ showLimit /\ limitUntil > WINDOW_MS /\ now < limitUntil
    /\ Len(tapsRef) = MAX_PER_MINUTE
    /\ tapsRef[1] + WINDOW_MS = limitUntil


\* C17 as stated: in every reachable state the rate window holds at most
\* five timestamps and every one of them is younger than WINDOW_MS.
C17_WindowAlwaysFresh ==
    /\ Len(tapsRef) <= MAX_PER_MINUTE
    /\ \A i \in 1..Len(tapsRef) : now - tapsRef[i] < WINDOW_MS

\* C17 amended: the rate window never holds more than five timestamps, and
\* right after every gate check (a tap allowed or denied by canTap) every
\* retained timestamp is younger than WINDOW_MS; between gate checks
\* timestamps that have left the window stay until the next check.
C17_WindowFreshAfterGate ==
    /\ [](Len(tapsRef) <= MAX_PER_MINUTE)
    /\ [][tapsRef' # tapsRef \/ TapAllowedStep \/ TapDeniedStep =>
             \A i \in 1..Len(tapsRef') : now' - tapsRef'[i] < WINDOW_MS]_vars

\* a tap was allowed after the clock left the window of the first taps
C17_Witness ==
    /\ now >= WINDOW_MS /\ Len(tapsRef) >= 2
    /\ tapsRef[Len(tapsRef)] = now /\ tapsRef[1] < now
    /\ \A i \in 1..Len(tapsRef) : now - tapsRef[i] < WINDOW_MS


\* C15: a backoff wait happens only between attempts: a call that goes to
\* sleep after a failed attempt always makes another attempt afterwards
\* (after the final failed attempt it returns null without suspending).
C15_WaitsOnlyBetweenAttempts ==
    [][/\ \A c \in 1..MaxChains :
            chains[c].pc = "fetch" /\ chains'[c].pc = "sleep"
                => loopAgain(Woken(chains'[c]))
       /\ \A r \in 1..MaxRefills :
            refills[r].pc = "fetch" /\ refills'[r].pc = "sleep"
                => loopAgain(Woken(refills'[r]))]_vars

\* the bounds C16 gives for the wait after the n-th failed attempt
LowDelay(n) ==
    LET low == (BASE_DELAY_MS * Pow2(n) * (100 - JITTER_PCT)) \div 100
    IN  IF low > MIN_DELAY_MS THEN low ELSE MIN_DELAY_MS
HighDelay(n) == (BASE_DELAY_MS * Pow2(n) * (100 + JITTER_PCT)) \div 100

\* C16: the wait after the n-th failed attempt lies in
\* [max(100, 400 * 2^n * 0.75), 400 * 2^n * 1.25], in src/App.js (every
\* call that sleeps) and in the jittered README variant (every draw).
C16_DelayInBand ==
    /\ \A c \in 1..MaxChains : chains[c].pc = "sleep" =>
          /\ LowDelay(chains[c].attempt) <= chains[c].delay
          /\ chains[c].delay <= HighDelay(chains[c].attempt)
    /\ \A r \in 1..MaxRefills : refills[r].pc = "sleep" =>
          /\ LowDelay(refills[r].attempt) <= refills[r].delay
          /\ refills[r].delay <= HighDelay(refills[r].attempt)
    /\ \A n \in 0..(MAX_RETRIES - 1), rnd \in RandomDraws :
          /\ LowDelay(n) <= jitteredDelay(n, rnd)
          /\ jitteredDelay(n, rnd) <= HighDelay(n)

\* a refill waits out its third backoff while a user-facing call its second
C16_Witness ==
    /\ \E r \in 1..MaxRefills :
          refills[r].pc = "sleep" /\ refills[r].attempt = 2
    /\ \E c \in 1..MaxChains :
          chains[c].pc = "sleep" /\ chains[c].attempt = 1


\* C13: fetchWithRetry never raises: whatever a fetch produces, the attempt
\* either returns a text to the caller or is counted as failed (the call
\* goes to its backoff with the attempt counter as it was); no initial
\* load, getNextFact or primeCache ever sees an exception from it.
C13_NeverRaises ==
    /\ [](/\ \A c \in 1..MaxChains : chains[c].pc # "threw"
          /\ \A r \in 1..MaxRefills : refills[r].pc # "threw")
    /\ [][/\ \A c \in 1..MaxChains :
               chains[c].pc = "fetch" /\ chains'[c] # chains[c] =>
                  \/ chains'[c] = Sleeping(chains[c])
                  \/ chains'[c] = Idle /\ ~busy' /\ fact' \in ServerFacts
          /\ \A r \in 1..MaxRefills :
               refills[r].pc = "fetch" /\ refills'[r] # refills[r] =>
                  \/ refills'[r] = Sleeping(refills[r])
                  \/ refills'[r] \in {Idle, Started}]_vars

\* a getNextFact call and a refill both wait after failed attempts, the
\* call after its third
C13_Witness ==
    /\ Len(tapsRef) >= 1
    /\ \E c \in 1..MaxChains :
          chains[c].pc = "sleep" /\ chains[c].attempt = 2
    /\ \E r \in 1..MaxRefills : refills[r].pc = "sleep"


\* C19: the queue never holds more than CACHE_TARGET = 4 facts, also with
\* several refills in flight.
C19_QueueWithinTarget == Len(cacheRef) <= CACHE_TARGET


\* event a comes before event b in the log
Before(a, b, log) ==
    \E i, j \in 1..Len(log) : log[i] = a /\ log[j] = b /\ i < j
\* a getNextFact call shows its fact in this step and its refill sends a request
NextFactPublishedStep ==
    PublishedStep /\ tapsRef' # <<>> /\ "request" \in Range(lastPublish')

\* C18 as stated: the setFact of a getNextFact call and the call's
\* completion both precede the first request of the refill it starts.
C18_CompletesBeforeRefillFetch ==
    [][NextFactPublishedStep =>
          /\ Before("setFact", "request", lastPublish')
          /\ Before("return", "request", lastPublish')]_vars

\* C18 amended: the setFact of a getNextFact call precedes the first
\* request of the refill it starts; that request is issued in the same
\* synchronous segment, before setBusy(false) and before the call returns.
C18_PublishesBeforeRefillFetch ==
    [][NextFactPublishedStep =>
          /\ Before("setFact", "request", lastPublish')
          /\ Before("request", "setBusy", lastPublish')
          /\ Before("setBusy", "return", lastPublish')
          /\ ~busy']_vars

\* a tap was served from the queue and its refill has a request in flight
C18_Witness ==
    /\ tapsRef # <<>> /\ ~busy /\ "request" \in Range(lastPublish)
    /\ fact \in seenRef /\ fact \notin Range(cacheRef)
    /\ \E r \in 1..MaxRefills : refills[r] = Started


\* the last instant the bounded clock reaches
LastTime == (MaxTime \div StepMs) * StepMs
\* the clock runs and reaches the end of the limit
ClockReaches(lu) == ClockRuns(world) /\ lu <= LastTime

\* C12: the timer clears limitUntil only once now >= limitUntil, hiding the
\* popup in the same step; and with the clock running and the interval firing,
\* once the user acts no more the session is back to Idle (limitUntil null,
\* popup hidden) for good.
C12_ReturnsToIdle ==
    /\ [][limitUntil # NoLimit /\ limitUntil' = NoLimit
            => now >= limitUntil /\ ~showLimit']_vars
    /\ [](showLimit => limitUntil # NoLimit)
    /\ (<>[][~UserStep]_vars)
         => <>[](ClockReaches(limitUntil) => limitUntil = NoLimit /\ ~showLimit)

\* a denied tap's limit has run out and the timer has put the session back
C12_Witness ==
    /\ ClockRuns(world) /\ now >= WINDOW_MS
    /\ Len(tapsRef) >= MAX_PER_MINUTE /\ tapsRef[1] + WINDOW_MS <= now
    /\ limitUntil = NoLimit /\ ~showLimit

\* C14: a user-facing call never makes more than MAX_TRIES attempts, busy is
\* true exactly while one is waiting, and every call that sent its first
\* request ends with busy false and a fact on screen -- the refills being
\* free never to finish.
C14_CallCompletes ==
    /\ [](\A c \in 1..MaxChains : chains[c].attempt < MAX_TRIES)
    /\ [](busy <=> Active(chains) # {})
    /\ \A c \in 1..MaxChains :
         (chains[c] = Started)
            ~> (chains[c] = Idle /\ ~busy /\ fact \in ServerFacts \cup FallbackFacts)
    /\ busy ~> ~busy

\* a getNextFact call that had to fetch (nothing was ever queued) is over
\* while the refills started before and by it are still out
C14_Witness ==
    /\ ~busy /\ tapsRef # <<>> /\ seenRef = {}
    /\ fact \in ServerFacts \cup FallbackFacts
    /\ Active(chains) = {}
    /\ \A r \in 1..MaxRefills : refills[r].pc \in {"fetch", "sleep"}

\* C20: every refill comes to an end.
C20_RefillTerminates ==
    \A r \in 1..MaxRefills : (refills[r].pc # "idle") ~> (refills[r].pc = "idle")

====
